---- MODULE Spec2Model ----
(***************************************************************************)
(* sensu-ec2-discovery: one discovery-and-registration pass of the three   *)
(* program variants kept in the repository.                                *)
(*                                                                         *)
(*   "classic"   src/sensu-ec2-discovery.go  (Sensu Classic proxy clients, *)
(*               lookup-then-create against one of several -api endpoints) *)
(*   "entities"  src/main.go lines 1-292     (Sensu Go entities, basic-auth*)
(*               login before every create)                                *)
(*   "plugin"    src/main.go lines 294-581   (Sensu Go check plugin with   *)
(*               validateArgs / discoverInstances / registerInstance)      *)
(*                                                                         *)
(* A Go string is a sequence of symbols; a symbol stands for one character *)
(* (",", "=", ":") or for a run of characters that contains no separator   *)
(* ("r1", "running").  strings.Split and strings.Join work on these        *)
(* sequences exactly as they work on characters.                           *)
(***************************************************************************)
EXTENDS Integers, Sequences, FiniteSets, TLC

(* ---------------------------- bounds ----------------------------------- *)

\* number of passes (process runs) in one behaviour
MaxPasses == 2

\* number of failing answers (provider or registry) in one behaviour
MaxFaults == 1

\* largest value of the unix clock read by time.Now().Unix()
MaxClock == 1

(* ---------------------------- strings ---------------------------------- *)

\* index of the first occurrence of sep in s, 0 when there is none
IndexOf(s, sep) ==
    IF \E i \in 1..Len(s) : s[i] = sep
    THEN CHOOSE i \in 1..Len(s) : s[i] = sep /\ \A j \in 1..(i - 1) : s[j] # sep
    ELSE 0

RECURSIVE Split(_, _)
\* strings.Split(s, sep) for a one-character sep: Split("", sep) is [""]
Split(s, sep) ==
    LET i == IndexOf(s, sep)
    IN  IF i = 0
        THEN << s >>
        ELSE << SubSeq(s, 1, i - 1) >> \o Split(SubSeq(s, i + 1, Len(s)), sep)

RECURSIVE Join(_, _)
\* strings.Join(parts, sep)
Join(parts, sep) ==
    IF parts = << >> THEN << >>
    ELSE IF Len(parts) = 1 THEN parts[1]
    ELSE parts[1] \o << sep >> \o Join(Tail(parts), sep)

(* ---------------------------- filters ---------------------------------- *)

\* &ec2.Filter{Name: ..., Values: ...}
Filter(name, values) == [Name |-> name, Values |-> values]

\* tagFilter with the indices of tagPair mixed up: the key is taken as the
\* accepted value
tagFilterKeyAsValue(tag) ==
    LET tagPair == Split(tag, "=")
    IN  IF Len(tagPair) < 2
        THEN [panic |-> TRUE, filter |-> Filter(<< >>, << >>)]
        ELSE [panic |-> FALSE,
              filter |-> Filter(Join(<< << "tag" >>, tagPair[1] >>, ":"),
                                << tagPair[1] >>)]

\* the filter built from one tag argument; tagPair[1] is outside the slice
\* when the argument holds no "=", and the Go runtime panics
tagFilter(tag) ==
    LET tagPair == Split(tag, "=")
    IN  IF Len(tagPair) < 2
        THEN [panic |-> TRUE, filter |-> Filter(<< >>, << >>)]
        ELSE [panic |-> FALSE,
              filter |-> Filter(Join(<< << "tag" >>, tagPair[1] >>, ":"),
                                << tagPair[2] >>)]

RECURSIVE appendTagFilters(_, _)
\* for _, tag := range tags { ...; filters = append(filters, filter) }
appendTagFilters(filters, tags) ==
    IF tags = << >>
    THEN [panic |-> FALSE, filters |-> filters]
    ELSE LET f == tagFilter(Head(tags))
         IN  IF f.panic
             THEN [panic |-> TRUE, filters |-> filters]
             ELSE appendTagFilters(Append(filters, f.filter), Tail(tags))

\* createFilters(states, tags) of the classic and entities variants: the
\* state filter is always the first filter
createFilters(states, tags) ==
    appendTagFilters(<< Filter(<< "instance-state-name" >>, states) >>, tags)

\* createFilters() of the plugin variant: reads config.ec2InstanceStates and
\* config.ec2InstanceTags, appends to config.ec2Filters
createFiltersConfig(ec2Filters, ec2InstanceStates, ec2InstanceTags) ==
    LET withStates ==
            IF Len(ec2InstanceStates) > 0
            THEN Append(ec2Filters,
                        Filter(<< "instance-state-name" >>,
                               Split(ec2InstanceStates, ",")))
            ELSE ec2Filters
    IN  IF Len(ec2InstanceTags) > 0
        THEN appendTagFilters(withStates, Split(ec2InstanceTags, ","))
        ELSE [panic |-> FALSE, filters |-> withStates]

(* ---------------------------- the provider ------------------------------ *)

\* a *string of the AWS SDK: nil, or a pointer to a value
Ptr(v) == [nil |-> FALSE, val |-> v]
Nil == [nil |-> TRUE, val |-> << >>]

\* &ec2.Tag{Key: ..., Value: ...}
Tag(k, v) == [Key |-> k, Value |-> v]

\* the tags the provider holds for each instance
TagsOf(id) ==
    CASE id = "i1" -> << Tag("env", "prod"), Tag("team", "ops") >>
      [] id = "i3" -> << Tag("env", "dev") >>
      [] OTHER     -> << >>

\* *ec2.Instance as the provider returns it; the instances of noDns have no
\* public DNS name
Instance(id, noDns) ==
    [InstanceId    |-> id,
     PublicDnsName |-> IF id \in noDns THEN Nil ELSE Ptr(<< id, ".", "dns" >>),
     Tags          |-> TagsOf(id)]

\* the regions the provider knows
KnownRegions == { << "r1" >>, << "r2" >>, << "r3" >> }

\* what a successful DescribeRegions call may return, in the provider's order
LiveRegionLists == { << >>, << << "r2" >>, << "r1" >> >> }

\* the matching instances of a region, as the provider pages them: a page is
\* a sequence of reservations, a reservation a sequence of instance ids
PagesOf(region) ==
    CASE region = << "r1" >> -> << << << "i1" >>, << "i2" >> >> >>
      [] region = << "r2" >> -> << << << "i3" >> >>, << << "i5" >> >> >>
      [] region = << "r3" >> -> << << << "i4" >> >> >>
      [] OTHER               -> << >>

\* the region a session built with aws.Config{Region: region} talks to: an
\* empty region falls back to the process environment (AWS_REGION)
sessionRegion(region, awsRegion) == IF region = << >> THEN awsRegion ELSE region

\* answer of one DescribeInstances call without a NextToken: the first page
\* of the region; a region the provider does not know (no region at all
\* included) is an error
DescribeInstancesOutput(region) ==
    IF region \in KnownRegions
    THEN [err |-> FALSE, Reservations |-> PagesOf(region)[1],
          NextToken |-> Len(PagesOf(region)) > 1]
    ELSE [err |-> TRUE, Reservations |-> << >>, NextToken |-> FALSE]

DescribeInstancesError == [err |-> TRUE, Reservations |-> << >>, NextToken |-> FALSE]

RECURSIVE instancesOf(_, _)
\* for _, reservation := range result.Reservations {
\*     for _, instance := range reservation.Instances { ... } }
instancesOf(reservations, noDns) ==
    IF reservations = << >> THEN << >>
    ELSE [k \in 1..Len(Head(reservations)) |-> Instance(Head(reservations)[k], noDns)]
         \o instancesOf(Tail(reservations), noDns)

(* ---------------------------- the records ------------------------------- *)

RECURSIVE tagMap(_)
\* m := make(map[string]string); for _, tag := range tags { m[*tag.Key] = *tag.Value }
tagMap(tags) ==
    IF tags = << >> THEN [k \in {} |-> ""]
    ELSE LET m == tagMap(SubSeq(tags, 1, Len(tags) - 1))
             t == tags[Len(tags)]
         IN  [k \in (DOMAIN m) \cup {t.Key} |-> IF k = t.Key THEN t.Value ELSE m[k]]

\* Entity with the namespace of the entities variant, "default", whatever
\* namespace is configured
EntityDefaultNamespace(instance, namespace) ==
    [Name        |-> instance.InstanceId,
     Namespace   |-> "default",
     EntityClass |-> "proxy",
     Labels      |-> tagMap(instance.Tags)]

\* corev2.Entity built by registerInstance (plugin)
Entity(instance, namespace) ==
    [Name        |-> instance.InstanceId,
     Namespace   |-> namespace,
     EntityClass |-> "proxy",
     Labels      |-> tagMap(instance.Tags)]

\* SensuClient built by discoverInstance (classic); the caller has checked
\* that PublicDnsName is not nil
SensuClient(instance) ==
    [Name          |-> instance.InstanceId,
     Address       |-> instance.PublicDnsName.val,
     Subscriptions |-> << >>,
     Ec2           |-> [Tags |-> tagMap(instance.Tags)]]

(* ---------------------------- the registry ------------------------------ *)

\* an HTTP answer: a transport error, or a status code
Resp(code) == [err |-> FALSE, StatusCode |-> code]
ConnErr == [err |-> TRUE, StatusCode |-> 0]

\* failing answers a registry endpoint can give to any request
FaultAnswers == { ConnErr, Resp(400), Resp(401), Resp(403), Resp(404), Resp(500) }

\* the registry keeps one record per name; the endpoints of one Sensu
\* installation share it
Has(reg, name) == name \in DOMAIN reg
Put(reg, name, rec) == [n \in (DOMAIN reg) \cup {name} |-> IF n = name THEN rec ELSE reg[n]]

\* POST .../entities answered by a working registry: 409 for a name it
\* already holds, 201 and the entity stored otherwise
PostEntity(reg, entity) ==
    IF Has(reg, entity.Name)
    THEN [resp |-> Resp(409), reg |-> reg]
    ELSE [resp |-> Resp(201), reg |-> Put(reg, entity.Name, entity)]

\* GET /clients/<name> answered by a working registry
GetClient(reg, name) == IF Has(reg, name) THEN Resp(200) ELSE Resp(404)

\* POST /clients answered by a working registry: the client is stored
PostClient(reg, client) ==
    [resp |-> Resp(201), reg |-> Put(reg, client.Name, client)]

\* GET /auth answered by a working registry for valid credentials
AuthOK == Resp(200)

\* url.Parse of the -api arguments in use
urlParse(api) ==
    CASE api = "a1"  -> [err |-> FALSE, Host |-> "h1", User |-> TRUE]
      [] api = "a2"  -> [err |-> FALSE, Host |-> "h2", User |-> FALSE]
      [] OTHER       -> [err |-> TRUE,  Host |-> "",   User |-> FALSE]

\* rand.New(rand.NewSource(seed)).Intn(n): a fixed function of the seed
Intn(seed, n) == (3 * seed + 1) % n

(* ---------------------------- state ------------------------------------- *)

VARIABLES
    variant,     \* which program runs: "classic", "entities" or "plugin"
    args,        \* parseArguments(): apis, states, regions, tags (flag lists)
    config,      \* CheckConfig of the plugin, ec2Filters included
    noDns,       \* provider: the instances without a public DNS name
    awsRegion,   \* environment: AWS_REGION, << >> when unset
    registry,    \* registry: name -> stored record
    now,         \* the unix clock, as last read
    faults,      \* failing answers given so far
    pass,        \* number of the running pass
    regAtStart,  \* registry content when the running pass started
    prev,        \* how the pass before ended, and the calls it made
    calls,       \* network calls of the running pass, in order
    pc,          \* position of the process
    states,      \* main: states after the default
    regions,     \* the region list the loop ranges over
    filters,     \* main: result of createFilters
    ri,          \* index of the region of the running loop iteration
    result,      \* instances of the region being processed
    ii,          \* index of the instance of the running loop iteration
    exitStatus,  \* process exit status, once pc is "done" or "exited"
    failure,     \* the statement that ended the process, "" while running
    printed,     \* the "Error:" lines main has printed in the running pass
    pool         \* worker pool (section 5 of the design): the instances not
                 \* yet taken, the step each worker stands at, and the
                 \* names whose create request the registry fails

vars == << variant, args, config, noDns, awsRegion, registry, now, faults,
           pass, regAtStart, prev, calls, pc, states, regions, filters, ri,
           result, ii, exitStatus, failure, printed, pool >>

\* what no step of the sequential program changes
env == << variant, args, noDns, awsRegion, pool >>

\* one entry of calls
Call(op, target, name, auth, body, resp) ==
    [op |-> op, target |-> target, name |-> name, auth |-> auth,
     body |-> body, resp |-> resp]

NoBody == [Name |-> ""]

(* ---------------------------- inputs ------------------------------------ *)

R1 == << "r1" >>
R2 == << "r2" >>
R3 == << "r3" >>

\* -api, -state, -region and -tag argument lists
ApiLists == { << >>, << "a1", "a2" >>, << "a2", "bad" >> }
StateLists == { << >>, << << "pending" >>, << "running" >> >> }
RegionLists == { << >>, << R1, R2, R3 >> }
TagLists == { << >>, << << "k", "=", "v" >> >>, << << "environment" >> >> }

\* --ec2-instance-states, --ec2-instance-regions, --ec2-instance-tags
StateStrings == { << >>, << "pending", ",", "running" >> }
RegionStrings == { << >>, << "r1", ",", "r2", ",", "r3" >> }
TagStrings == { << >>, << "k", "=", "v" >>, << "environment" >> }
Tokens == { "", "tok" }
Namespaces == { "default", "ops" }

NoArgs == [apis |-> << >>, states |-> << >>, regions |-> << >>, tags |-> << >>]

\* the sequential program has no worker pool
NoPool == [pending |-> {}, failing |-> {}, at |-> << >>]

NoConfig ==
    [ec2InstanceStates |-> << >>, ec2InstanceRegions |-> << >>,
     ec2InstanceTags |-> << >>, ec2Filters |-> << >>,
     sensuNamespace |-> "default", sensuAccessToken |-> ""]

\* a record the registry holds for i1 before the first pass, written by
\* an earlier run when the instance had other tags
StaleRecord(v) ==
    IF v = "classic"
    THEN [Name |-> "i1", Address |-> << "i1", ".", "dns" >>, Subscriptions |-> << >>,
          Ec2 |-> [Tags |-> tagMap(<< Tag("env", "old") >>)]]
    ELSE [Name |-> "i1", Namespace |-> "default", EntityClass |-> "proxy",
          Labels |-> tagMap(<< Tag("env", "old") >>)]

EmptyRegistry == [n \in {} |-> NoBody]

InitialRegistries(v) == { EmptyRegistry, Put(EmptyRegistry, "i1", StaleRecord(v)) }

Init ==
    /\ variant \in { "classic", "entities", "plugin" }
    /\ \/ /\ variant = "classic"
          /\ args \in [apis : ApiLists, states : StateLists,
                       regions : RegionLists, tags : TagLists]
          /\ config = NoConfig
          /\ noDns \in { {}, { "i4" } }
          /\ awsRegion = << >>
       \/ /\ variant = "entities"
          /\ args \in [apis : { << >> }, states : StateLists,
                       regions : RegionLists, tags : TagLists]
          /\ config = NoConfig
          /\ noDns = {}
          /\ awsRegion = << >>
       \/ /\ variant = "plugin"
          /\ args = NoArgs
          /\ config \in [ec2InstanceStates : StateStrings,
                         ec2InstanceRegions : RegionStrings,
                         ec2InstanceTags : TagStrings,
                         ec2Filters : { << >> },
                         sensuNamespace : Namespaces,
                         sensuAccessToken : Tokens]
          /\ noDns = {}
          /\ awsRegion \in IF config.ec2InstanceRegions = << >>
                           THEN { << >>, R3 } ELSE { << >> }
    /\ registry \in InitialRegistries(variant)
    /\ regAtStart = registry
    /\ prev = [done |-> FALSE, calls |-> << >>]
    /\ now = 0
    /\ faults = 0
    /\ pass = 1
    /\ calls = << >>
    /\ pc = "start"
    /\ states = << >>
    /\ regions = << >>
    /\ filters = << >>
    /\ ri = 1
    /\ result = << >>
    /\ ii = 1
    /\ exitStatus = 0
    /\ failure = ""
    /\ printed = << >>
    /\ pool = NoPool

(* ---------------------------- process steps ----------------------------- *)

\* os.Exit(status), log.Fatalf (status 1) or a runtime panic (status 2)
Exit(status, why) ==
    /\ pc' = "exited"
    /\ exitStatus' = status
    /\ failure' = why

\* the answers a request can get: the working registry's answer, or, while
\* failing answers are left, one of the failing ones
Answers(honest, failing) ==
    { honest } \cup (IF faults < MaxFaults THEN failing \ { honest } ELSE {})

Cost(answer, honest) == IF answer = honest THEN 0 ELSE 1

\* after the body of the instance loop: the next instance, or the next region
NextInstance ==
    IF ii < Len(result)
    THEN /\ ii' = ii + 1
         /\ UNCHANGED << pc, ri >>
    ELSE /\ ii' = 1
         /\ ri' = ri + 1
         /\ pc' = "loop"

\* the provider's answers to DescribeRegions
DescribeRegionsOutputs ==
    { [err |-> FALSE, Regions |-> [k \in 1..Len(l) |-> [RegionName |-> l[k]]]] :
        l \in LiveRegionLists }

DescribeRegionsError == [err |-> TRUE, Regions |-> << >>]

\* fetchRegions(), given the answer of its DescribeRegions call
fetchRegions(awsRegions) ==
    IF awsRegions.err
    THEN [err |-> TRUE, regions |-> << >>]
    ELSE [err |-> FALSE,
          regions |-> [k \in 1..Len(awsRegions.Regions) |->
                          awsRegions.Regions[k].RegionName]]

\* fmt.Println("Error:", err) of main: a line of printed
ErrorLine(what, about) == [what |-> what, about |-> about]

\* the entry a provider call leaves in calls
AwsCall(op, region, input, out) == Call(op, region, "", "aws", input, out)

(* ------------- classic and entities variants: main --------------------- *)

\* main: parseArguments, the -api check (classic only), the states default
mainArgs ==
    /\ pc = "start"
    /\ variant \in { "classic", "entities" }
    /\ IF variant = "classic" /\ Len(args.apis) = 0
       THEN /\ Exit(1, "usage")
            /\ UNCHANGED << states, regions >>
       ELSE /\ states' = IF Len(args.states) = 0 THEN << << "running" >> >>
                         ELSE args.states
            /\ regions' = args.regions
            /\ pc' = "regions"
            /\ UNCHANGED << exitStatus, failure >>
    /\ UNCHANGED << env, printed, config, registry, now, faults, pass, regAtStart, prev,
                    calls, filters, ri, result, ii >>

\* main: if len(regions) == 0 { regions, err = fetchRegions() ... }
mainRegions ==
    /\ pc = "regions"
    /\ IF Len(regions) = 0
       THEN \E out \in DescribeRegionsOutputs
                       \cup (IF faults < MaxFaults THEN { DescribeRegionsError } ELSE {}) :
              LET r == fetchRegions(out)
              IN  /\ calls' = Append(calls, AwsCall("DescribeRegions", << >>, NoBody, out))
                  /\ faults' = faults + (IF out.err THEN 1 ELSE 0)
                  /\ IF r.err
                     THEN /\ Exit(1, "fetchRegions")
                          /\ UNCHANGED regions
                     ELSE /\ regions' = r.regions
                          /\ pc' = "filters"
                          /\ UNCHANGED << exitStatus, failure >>
       ELSE /\ pc' = "filters"
            /\ UNCHANGED << calls, faults, regions, exitStatus, failure >>
    /\ UNCHANGED << env, printed, config, registry, now, pass, regAtStart, prev, states,
                    filters, ri, result, ii >>

\* main: filters, err := createFilters(states, tags)
mainFilters ==
    /\ pc = "filters"
    /\ LET r == createFilters(states, args.tags)
       IN  IF r.panic
           THEN /\ Exit(2, "createFilters")
                /\ UNCHANGED << filters, ri >>
           ELSE /\ filters' = r.filters
                /\ ri' = 1
                /\ pc' = "loop"
                /\ UNCHANGED << exitStatus, failure >>
    /\ UNCHANGED << env, printed, config, registry, now, faults, pass, regAtStart, prev,
                    calls, states, regions, result, ii >>

\* main: one iteration of the region loop up to the instance loop
mainDescribe ==
    /\ pc = "loop"
    /\ variant \in { "classic", "entities" }
    /\ ri <= Len(regions)
    /\ \E out \in Answers(DescribeInstancesOutput(sessionRegion(regions[ri], awsRegion)),
                      { DescribeInstancesError }) :
         /\ calls' = Append(calls, AwsCall("DescribeInstances", regions[ri],
                                           [Filters |-> filters], out))
         /\ faults' = faults + Cost(out, DescribeInstancesOutput(sessionRegion(regions[ri], awsRegion)))
         /\ printed' = IF out.err THEN Append(printed, ErrorLine("region", regions[ri]))
                                   ELSE printed
         /\ IF out.err \/ instancesOf(out.Reservations, noDns) = << >>
            THEN /\ ri' = ri + 1
                 /\ UNCHANGED << pc, result, ii >>
            ELSE /\ result' = instancesOf(out.Reservations, noDns)
                 /\ ii' = 1
                 /\ pc' = "instances"
                 /\ UNCHANGED ri
    /\ UNCHANGED << env, config, registry, now, pass, regAtStart, prev, states,
                    regions, filters, exitStatus, failure >>

\* main returns after the last region: exit status 0
mainReturn ==
    /\ pc = "loop"
    /\ variant \in { "classic", "entities" }
    /\ ri > Len(regions)
    /\ pc' = "done"
    /\ exitStatus' = 0
    /\ UNCHANGED << env, printed, config, registry, now, faults, pass, regAtStart, prev,
                    calls, states, regions, filters, ri, result, ii, failure >>

(* ------------- classic variant: proxy clients --------------------------- *)

\* failing answers to the lookup GET /clients/<name>; 404 is the working
\* registry's answer for an unknown name
GetFaults == FaultAnswers \ { Resp(404) }

\* manageSensuProxyClient whose switch sends the create request for every
\* lookup status but 401
manageSensuProxyClientAlwaysCreates(apis, client, seed, getResp, postResp) ==
    LET randomInt == Intn(seed, Len(apis))
        api == urlParse(apis[randomInt + 1])
        auth == IF api.User THEN "basic" ELSE ""
        get == Call("GET", api.Host, client.Name, auth, NoBody, getResp)
        post == Call("POST", api.Host, client.Name, auth, client, postResp)
    IN  IF api.err THEN [err |-> TRUE, sent |-> << >>]
        ELSE IF getResp.err THEN [err |-> TRUE, sent |-> << get >>]
        ELSE IF getResp.StatusCode = 401
             THEN [err |-> TRUE, sent |-> << get >>]
        ELSE IF postResp.err
             THEN [err |-> TRUE, sent |-> << get, post >>]
        ELSE [err |-> FALSE, sent |-> << get, post >>]

\* manageSensuProxyClient that draws the endpoint anew for the create
\* request: the create goes to the next endpoint of the list
manageSensuProxyClientCreateElsewhere(apis, client, seed, getResp, postResp) ==
    LET randomInt == Intn(seed, Len(apis))
        api == urlParse(apis[randomInt + 1])
        other == urlParse(apis[((randomInt + 1) % Len(apis)) + 1])
        auth == IF api.User THEN "basic" ELSE ""
        get == Call("GET", api.Host, client.Name, auth, NoBody, getResp)
        post == Call("POST", other.Host, client.Name, auth, client, postResp)
    IN  IF api.err THEN [err |-> TRUE, sent |-> << >>]
        ELSE IF getResp.err THEN [err |-> TRUE, sent |-> << get >>]
        ELSE IF getResp.StatusCode = 404
             THEN IF postResp.err
                  THEN [err |-> TRUE, sent |-> << get, post >>]
                  ELSE [err |-> FALSE, sent |-> << get, post >>]
        ELSE IF getResp.StatusCode = 401
             THEN [err |-> TRUE, sent |-> << get >>]
        ELSE [err |-> FALSE, sent |-> << get >>]

\* manageSensuProxyClient whose switch has the create under the wrong case:
\* the create request is sent when the lookup has found the client
manageSensuProxyClientCreatesWhenFound(apis, client, seed, getResp, postResp) ==
    LET randomInt == Intn(seed, Len(apis))
        api == urlParse(apis[randomInt + 1])
        auth == IF api.User THEN "basic" ELSE ""
        get == Call("GET", api.Host, client.Name, auth, NoBody, getResp)
        post == Call("POST", api.Host, client.Name, auth, client, postResp)
    IN  IF api.err THEN [err |-> TRUE, sent |-> << >>]
        ELSE IF getResp.err THEN [err |-> TRUE, sent |-> << get >>]
        ELSE IF getResp.StatusCode \in { 200, 404 }
             THEN IF postResp.err
                  THEN [err |-> TRUE, sent |-> << get, post >>]
                  ELSE [err |-> FALSE, sent |-> << get, post >>]
        ELSE IF getResp.StatusCode = 401
             THEN [err |-> TRUE, sent |-> << get >>]
        ELSE [err |-> FALSE, sent |-> << get >>]

\* manageSensuProxyClient(apis, client), given the clock value it seeds the
\* generator with and the answers its requests get; sent lists the requests
\* it has made
manageSensuProxyClient(apis, client, seed, getResp, postResp) ==
    LET randomInt == Intn(seed, Len(apis))
        api == urlParse(apis[randomInt + 1])
        auth == IF api.User THEN "basic" ELSE ""
        get == Call("GET", api.Host, client.Name, auth, NoBody, getResp)
        post == Call("POST", api.Host, client.Name, auth, client, postResp)
    IN  IF api.err THEN [err |-> TRUE, sent |-> << >>]
        ELSE IF getResp.err THEN [err |-> TRUE, sent |-> << get >>]
        ELSE IF getResp.StatusCode = 404
             THEN IF postResp.err
                  THEN [err |-> TRUE, sent |-> << get, post >>]
                  ELSE [err |-> FALSE, sent |-> << get, post >>]
        ELSE IF getResp.StatusCode = 401
             THEN [err |-> TRUE, sent |-> << get >>]
        ELSE [err |-> FALSE, sent |-> << get >>]

\* main: one iteration of the instance loop, discoverInstance(apis, instance);
\* a returned error is printed and the loop goes on
discoverInstance ==
    /\ pc = "instances"
    /\ variant = "classic"
    /\ LET instance == result[ii]
       IN  IF instance.PublicDnsName.nil
           THEN /\ Exit(2, "discoverInstance")
                /\ UNCHANGED << registry, now, faults, calls, ri, ii, printed >>
           ELSE LET client == SensuClient(instance)
                    getOK == GetClient(registry, client.Name)
                    postOK == PostClient(registry, client)
                IN  \E t \in now..MaxClock :
                    \E g \in Answers(getOK, GetFaults) :
                    \E p \in IF g = Resp(404) THEN Answers(postOK.resp, FaultAnswers)
                                              ELSE { postOK.resp } :
                      LET r == manageSensuProxyClient(args.apis, client, t, g, p)
                          cost == (IF Len(r.sent) >= 1 THEN Cost(g, getOK) ELSE 0)
                                  + (IF Len(r.sent) = 2 THEN Cost(p, postOK.resp) ELSE 0)
                      IN  /\ now' = t
                          /\ calls' = calls \o r.sent
                          /\ faults' = faults + cost
                          /\ registry' = IF Len(r.sent) = 2 /\ p = postOK.resp
                                         THEN postOK.reg ELSE registry
                          /\ printed' = IF r.err
                                        THEN Append(printed, ErrorLine("instance", client.Name))
                                        ELSE printed
                          /\ NextInstance
                          /\ UNCHANGED << exitStatus, failure >>
    /\ UNCHANGED << env, config, pass, regAtStart, prev, states, regions, filters,
                    result >>

(* ------------- entities variant: login, then create --------------------- *)

\* authenticate(httpClient): every failure is log.Fatal
authenticate(resp) ==
    IF resp.err \/ resp.StatusCode = 401 \/ resp.StatusCode >= 300
    THEN [fatal |-> TRUE, token |-> ""]
    ELSE [fatal |-> FALSE, token |-> "tok"]

\* discoverInstance(instance) of the entities variant: what it does with the
\* answer to its POST
discoverOutcome(resp) ==
    IF resp.err THEN "fatal"
    ELSE IF resp.StatusCode = 404 THEN "fatal"
    ELSE IF resp.StatusCode = 409 THEN "exists"
    ELSE IF resp.StatusCode >= 300 THEN "fatal"
    ELSE "created"

\* main: one iteration of the instance loop, discoverInstance(instance)
discoverInstanceEntity ==
    /\ pc = "instances"
    /\ variant = "entities"
    /\ LET entity == Entity(result[ii], "default")
           postOK == PostEntity(registry, entity)
       IN  \E a \in Answers(AuthOK, FaultAnswers) :
             LET login == authenticate(a)
                 auth == Call("GET", "auth", "", "basic", NoBody, a)
             IN  IF login.fatal
                 THEN /\ calls' = Append(calls, auth)
                      /\ faults' = faults + Cost(a, AuthOK)
                      /\ Exit(1, "authenticate")
                      /\ UNCHANGED << registry, ri, ii >>
                 ELSE \E p \in Answers(postOK.resp, FaultAnswers) :
                        /\ calls' = calls \o << auth,
                                     Call("POST", "entities", entity.Name,
                                          login.token, entity, p) >>
                        /\ faults' = faults + Cost(p, postOK.resp)
                        /\ registry' = IF p = postOK.resp THEN postOK.reg ELSE registry
                        /\ IF discoverOutcome(p) = "fatal"
                           THEN /\ Exit(1, "discoverInstance")
                                /\ UNCHANGED << ri, ii >>
                           ELSE /\ NextInstance
                                /\ UNCHANGED << exitStatus, failure >>
    /\ UNCHANGED << env, printed, config, now, pass, regAtStart, prev, states, regions,
                    filters, result >>

(* ------------- plugin variant ------------------------------------------- *)

\* validateArgs without the access token check
validateArgsNoTokenCheck ==
    /\ pc = "start"
    /\ variant = "plugin"
    /\ LET r == createFiltersConfig(config.ec2Filters,
                                    config.ec2InstanceStates,
                                    config.ec2InstanceTags)
       IN  IF r.panic
           THEN /\ Exit(2, "createFilters")
                /\ UNCHANGED config
           ELSE /\ config' = [config EXCEPT !.ec2Filters = r.filters]
                /\ pc' = "discover"
                /\ UNCHANGED << exitStatus, failure >>
    /\ UNCHANGED << env, printed, registry, now, faults, pass, regAtStart, prev, calls,
                    states, regions, filters, ri, result, ii >>

\* validateArgs(event): the token check, then createFilters(); log.Fatalf
\* ends the process before the error is returned
validateArgs ==
    /\ pc = "start"
    /\ variant = "plugin"
    /\ IF config.sensuAccessToken = ""
       THEN /\ Exit(1, "validateArgs")
            /\ UNCHANGED config
       ELSE LET r == createFiltersConfig(config.ec2Filters,
                                         config.ec2InstanceStates,
                                         config.ec2InstanceTags)
            IN  IF r.panic
                THEN /\ Exit(2, "createFilters")
                     /\ UNCHANGED config
                ELSE /\ config' = [config EXCEPT !.ec2Filters = r.filters]
                     /\ pc' = "discover"
                     /\ UNCHANGED << exitStatus, failure >>
    /\ UNCHANGED << env, printed, registry, now, faults, pass, regAtStart, prev, calls,
                    states, regions, filters, ri, result, ii >>

\* discoverInstances(event): the range expression of the region loop
discoverInstances ==
    /\ pc = "discover"
    /\ regions' = Split(config.ec2InstanceRegions, ",")
    /\ ri' = 1
    /\ pc' = "loop"
    /\ UNCHANGED << env, printed, config, registry, now, faults, pass, regAtStart, prev,
                    calls, states, filters, result, ii, exitStatus, failure >>

\* discoverInstances: one iteration of the region loop up to the instance
\* loop; a failed listing is log.Fatalf
discoverInstancesFetch ==
    /\ pc = "loop"
    /\ variant = "plugin"
    /\ ri <= Len(regions)
    /\ \E out \in Answers(DescribeInstancesOutput(sessionRegion(regions[ri], awsRegion)),
                      { DescribeInstancesError }) :
         /\ calls' = Append(calls, AwsCall("DescribeInstances", regions[ri],
                                           [Filters |-> config.ec2Filters], out))
         /\ faults' = faults + Cost(out, DescribeInstancesOutput(sessionRegion(regions[ri], awsRegion)))
         /\ IF out.err
            THEN /\ Exit(1, "discoverInstances")
                 /\ UNCHANGED << ri, result, ii >>
            ELSE IF instancesOf(out.Reservations, noDns) = << >>
            THEN /\ ri' = ri + 1
                 /\ UNCHANGED << pc, result, ii, exitStatus, failure >>
            ELSE /\ result' = instancesOf(out.Reservations, noDns)
                 /\ ii' = 1
                 /\ pc' = "instances"
                 /\ UNCHANGED << ri, exitStatus, failure >>
    /\ UNCHANGED << env, printed, config, registry, now, pass, regAtStart, prev, states,
                    regions, filters >>

\* registerOutcome with the 409 test after the >= 300 test: a conflict is
\* fatal
registerOutcomeConflictFatal(resp) ==
    IF resp.err THEN "fatal"
    ELSE IF resp.StatusCode = 404 THEN "fatal"
    ELSE IF resp.StatusCode >= 300 THEN "fatal"
    ELSE IF resp.StatusCode = 409 THEN "exists"
    ELSE IF resp.StatusCode = 201 THEN "created"
    ELSE "body"

\* registerInstance(instance): what it does with the answer to its POST
registerOutcome(resp) ==
    IF resp.err THEN "fatal"
    ELSE IF resp.StatusCode = 404 THEN "fatal"
    ELSE IF resp.StatusCode = 409 THEN "exists"
    ELSE IF resp.StatusCode >= 300 THEN "fatal"
    ELSE IF resp.StatusCode = 201 THEN "created"
    ELSE "body"

\* discoverInstances: one iteration of the instance loop,
\* registerInstance(instance)
registerInstance ==
    /\ pc = "instances"
    /\ variant = "plugin"
    /\ LET entity == Entity(result[ii], config.sensuNamespace)
           postOK == PostEntity(registry, entity)
       IN  \E p \in Answers(postOK.resp, FaultAnswers) :
             /\ calls' = Append(calls, Call("POST", "entities", entity.Name,
                                            config.sensuAccessToken, entity, p))
             /\ faults' = faults + Cost(p, postOK.resp)
             /\ registry' = IF p = postOK.resp THEN postOK.reg ELSE registry
             /\ IF registerOutcome(p) = "fatal"
                THEN /\ Exit(1, "registerInstance")
                     /\ UNCHANGED << ri, ii >>
                ELSE /\ NextInstance
                     /\ UNCHANGED << exitStatus, failure >>
    /\ UNCHANGED << env, printed, config, now, pass, regAtStart, prev, states, regions,
                    filters, result >>

\* discoverInstances returns nil after the last region: exit status 0
discoverInstancesReturn ==
    /\ pc = "loop"
    /\ variant = "plugin"
    /\ ri > Len(regions)
    /\ pc' = "done"
    /\ exitStatus' = 0
    /\ UNCHANGED << env, printed, config, registry, now, faults, pass, regAtStart, prev,
                    calls, states, regions, filters, ri, result, ii, failure >>

(* ------------- the periodic job ----------------------------------------- *)

\* the scheduler starts the program again: a new process, the same
\* arguments, the registry as the last pass left it
NextPass ==
    /\ pc \in { "done", "exited" }
    /\ pass < MaxPasses
    /\ pass' = pass + 1
    /\ regAtStart' = registry
    /\ prev' = [done |-> pc = "done", calls |-> calls]
    /\ calls' = << >>
    /\ pc' = "start"
    /\ states' = << >>
    /\ regions' = << >>
    /\ filters' = << >>
    /\ config' = [config EXCEPT !.ec2Filters = << >>]
    /\ ri' = 1
    /\ result' = << >>
    /\ ii' = 1
    /\ exitStatus' = 0
    /\ failure' = ""
    /\ printed' = << >>
    /\ UNCHANGED << env, registry, now, faults >>

Next ==
    \/ mainArgs
    \/ mainRegions
    \/ mainFilters
    \/ mainDescribe
    \/ mainReturn
    \/ discoverInstance
    \/ discoverInstanceEntity
    \/ validateArgs
    \/ discoverInstances
    \/ discoverInstancesFetch
    \/ registerInstance
    \/ discoverInstancesReturn
    \/ NextPass

Spec == Init /\ [][Next]_vars

(* ---------------------------- reading the calls ------------------------- *)

SeqToSet(s) == { s[k] : k \in DOMAIN s }

Min2(a, b) == IF a < b THEN a ELSE b

Ended == pc \in { "done", "exited" }

\* an instance-listing call, a request of an upsert, a failed request
IsFetch(c) == c.op = "DescribeInstances"
IsUpsert(c) == c.op \in { "GET", "POST" } /\ c.name # ""
IsLookup(c) == c.op = "GET" /\ c.name # ""
IsCreate(c) == c.op = "POST"
RegistryFailure(c) ==
    /\ c.op \in { "GET", "POST" }
    /\ \/ c.resp.err
       \/ /\ c.resp.StatusCode >= 300
          /\ c.resp.StatusCode # 409
          /\ ~(IsLookup(c) /\ c.resp.StatusCode = 404)

\* the instances the successful listing calls of cs have returned
IdsOf(reservations) == UNION { SeqToSet(r) : r \in SeqToSet(reservations) }
FetchedIds(cs) ==
    UNION { IdsOf(DescribeInstancesOutput(sessionRegion(c.target, awsRegion)).Reservations) :
              c \in { x \in SeqToSet(cs) : IsFetch(x) /\ ~x.resp.err } }

\* the instances cs holds an upsert request for
UpsertedIds(cs) == { c.name : c \in { x \in SeqToSet(cs) : IsUpsert(x) } }

FailedFetches(cs) == { k \in DOMAIN cs : IsFetch(cs[k]) /\ cs[k].resp.err }

\* every -api argument is a URL
ApisParse == \A k \in DOMAIN args.apis : ~urlParse(args.apis[k]).err

(* ---------------------------- claims ------------------------------------ *)

\* C1: a pass over two or more regions in which the instance listing fails
\* for exactly one region (and nothing else fails) has, when it ends, listed
\* every other region and sent an upsert for every instance they returned.
C1_OtherRegionsProcessed ==
    ( /\ Ended
      /\ exitStatus # 2
      /\ Len(regions) >= 2
      /\ Cardinality(FailedFetches(calls)) = 1
      /\ \A c \in SeqToSet(calls) : ~RegistryFailure(c)
      /\ ApisParse )
    => /\ \A k \in DOMAIN regions :
            \E c \in SeqToSet(calls) : IsFetch(c) /\ c.target = regions[k]
       /\ FetchedIds(calls) \subseteq UpsertedIds(calls)

\* C2: an upsert request answered 401 is the last upsert request of the
\* pass, and the process does not end with status 0 after it.
C2_AuthFailureAborts ==
    \A k \in DOMAIN calls :
        (IsUpsert(calls[k]) /\ calls[k].resp = Resp(401))
        => /\ \A j \in DOMAIN calls : j > k => ~IsUpsert(calls[j])
           /\ pc # "done"
           /\ (pc = "exited" => exitStatus # 0)

\* C3: an upsert answered with a status such as 400, 403 or 500 does not end
\* the pass: when the pass has ended and nothing else has failed, every
\* instance the listings returned has got its upsert request.
TransientStatus == { Resp(400), Resp(403), Resp(500) }

C3_TransientFailureContinues ==
    ( /\ Ended
      /\ exitStatus # 2
      /\ \E c \in SeqToSet(calls) : IsCreate(c) /\ c.resp \in TransientStatus
      /\ \A c \in SeqToSet(calls) :
            RegistryFailure(c) => (IsCreate(c) /\ c.resp \in TransientStatus)
      /\ FailedFetches(calls) = {}
      /\ ApisParse )
    => FetchedIds(calls) \subseteq UpsertedIds(calls)

Last(s) == s[Len(s)]

\* the statuses of a create request that leave the pass running
CreateOK == { Resp(201), Resp(409) }

\* C4: a create request answered 409 does not end the process, the pass goes
\* on with another instance, and a pass whose create requests were all
\* answered 201 or 409, and in which nothing else failed, ends with status 0.
C4_ConflictIsNotAnError ==
    /\ ( calls # << >> /\ IsCreate(Last(calls)) /\ Last(calls).resp = Resp(409) )
       => /\ pc \in { "instances", "loop", "done" }
          /\ failure = ""
          /\ exitStatus = 0
          /\ pc = "instances" => result[ii].InstanceId # Last(calls).name
    /\ ( /\ Ended
         /\ \E c \in SeqToSet(calls) : IsCreate(c) /\ c.resp = Resp(409)
         /\ \A c \in SeqToSet(calls) : IsCreate(c) => c.resp \in CreateOK
         /\ \A c \in SeqToSet(calls) : ~RegistryFailure(c)
         /\ FailedFetches(calls) = {} )
       => /\ pc = "done"
          /\ exitStatus = 0
          /\ FetchedIds(calls) \subseteq UpsertedIds(calls)

C4_Witness ==
    /\ pc = "done"
    /\ exitStatus = 0
    /\ \E k \in DOMAIN calls :
          /\ IsCreate(calls[k])
          /\ calls[k].resp = Resp(409)
          /\ \E j \in DOMAIN calls :
                j > k /\ IsCreate(calls[j]) /\ calls[j].name # calls[k].name

\* a tag argument without "="
NoSeparator(tag) == IndexOf(tag, "=") = 0

MalformedTag ==
    IF variant = "plugin"
    THEN /\ Len(config.ec2InstanceTags) > 0
         /\ \E t \in SeqToSet(Split(config.ec2InstanceTags, ",")) : NoSeparator(t)
    ELSE \E t \in SeqToSet(args.tags) : NoSeparator(t)

\* C5: with a tag argument that has no "=", the pass ends before the region
\* loop with a non-zero status, and no network call is ever made.
C5_MalformedTagNoNetwork ==
    MalformedTag
    => /\ calls = << >>
       /\ pc \in { "start", "regions", "filters", "exited" }
       /\ pc = "exited" => exitStatus # 0

MissingCredential ==
    \/ variant = "classic" /\ Len(args.apis) = 0
    \/ variant = "plugin" /\ config.sensuAccessToken = ""

\* C6: without an -api argument (classic) or with an empty access token
\* (plugin) the first step of the pass ends the process with status 1; no
\* network call is made and the registry is not touched.
C6_MissingCredentialIsFatal ==
    MissingCredential
    => /\ calls = << >>
       /\ registry = regAtStart
       /\ pc \in { "start", "exited" }
       /\ pc = "exited" => ( exitStatus = 1 /\ failure \in { "usage", "validateArgs" } )

C6_Witness == MissingCredential /\ pc = "exited" /\ pass = 2

\* the region list the operator has given
OperatorRegions ==
    IF variant = "plugin"
    THEN IF config.ec2InstanceRegions = << >> THEN << >>
         ELSE Split(config.ec2InstanceRegions, ",")
    ELSE args.regions

LiveCalls == { k \in DOMAIN calls : calls[k].op = "DescribeRegions" }

FetchTargets(cs) ==
    LET fs == SelectSeq(cs, IsFetch) IN [k \in DOMAIN fs |-> fs[k].target]

\* C10: once the region loop runs, the region list is the operator's list
\* and no live region listing was made, or, for an empty operator list, the
\* list one single live region listing has returned; a pass that ends with
\* status 0 has listed the instances of exactly these regions, in order.
C10_RegionsFetched ==
    pc \in { "loop", "instances", "done" }
    => /\ IF OperatorRegions # << >>
          THEN regions = OperatorRegions /\ LiveCalls = {}
          ELSE /\ Cardinality(LiveCalls) = 1
               /\ \A k \in LiveCalls :
                     regions = [j \in DOMAIN calls[k].resp.Regions |->
                                   calls[k].resp.Regions[j].RegionName]
       /\ pc = "done" => FetchTargets(calls) = regions

\* a pass in which every listing succeeded and every instance listed got
\* its upsert requests answered without a failure
Clean(cs) ==
    /\ FailedFetches(cs) = {}
    /\ \A c \in SeqToSet(cs) : ~RegistryFailure(c)
    /\ FetchedIds(cs) \subseteq UpsertedIds(cs)

\* C7: when a pass that ran to its end without a failure is followed by a
\* second such pass over the same instances, every upsert of the second
\* pass finds the record in place (409 to the create request; for the
\* classic variant 200 to the lookup and no create request) and the registry
\* content after the second pass is the content after the first.
C7_SecondPassIdempotent ==
    ( /\ pass >= 2
      /\ pc = "done"
      /\ prev.done
      /\ Clean(prev.calls)
      /\ Clean(calls)
      /\ FetchedIds(prev.calls) = FetchedIds(calls) )
    => /\ \A c \in SeqToSet(calls) :
            /\ IsCreate(c) => ( variant # "classic" /\ c.resp = Resp(409) )
            /\ IsLookup(c) => c.resp = Resp(200)
       /\ UpsertedIds(calls) = FetchedIds(calls)
       /\ registry = regAtStart

C7_Witness ==
    /\ pass = 2
    /\ pc = "done"
    /\ prev.done
    /\ Clean(prev.calls)
    /\ Clean(calls)
    /\ FetchedIds(prev.calls) = FetchedIds(calls)
    /\ Cardinality(UpsertedIds(calls)) >= 3
    /\ \E c \in SeqToSet(prev.calls) : IsCreate(c) /\ c.resp = Resp(201)

\* the entity the registry is to hold for an instance
ExpectedLabels(id) ==
    LET tags == TagsOf(id)
    IN  [k \in { tags[j].Key : j \in DOMAIN tags } |->
            tags[CHOOSE j \in DOMAIN tags : tags[j].Key = k].Value]

ExpectedEntity(id) ==
    [Name |-> id, Namespace |-> config.sensuNamespace, EntityClass |-> "proxy",
     Labels |-> ExpectedLabels(id)]

\* C8: (plugin) every create request is for an instance a successful listing
\* of the pass has returned, carries the entity of that instance (name = the
\* instance id, the configured namespace, class "proxy", labels = the tags)
\* and is the only one for that instance; when the pass ends with status 0
\* every instance returned has its create request.
C8_OneUpsertPerInstance ==
    variant = "plugin"
    => /\ \A k \in DOMAIN calls :
            IsCreate(calls[k])
            => /\ calls[k].name \in FetchedIds(calls)
               /\ calls[k].body = ExpectedEntity(calls[k].name)
               /\ \A j \in DOMAIN calls :
                     (j # k /\ IsCreate(calls[j])) => calls[j].name # calls[k].name
       /\ pc = "done" => UpsertedIds(calls) = FetchedIds(calls)

C8_Witness ==
    /\ variant = "plugin"
    /\ pc = "done"
    /\ config.sensuNamespace = "ops"
    /\ { "i1", "i2" } \subseteq UpsertedIds(calls)
    /\ Cardinality(UpsertedIds(calls)) >= 4

(* ---------------------------- the Filter Builder alone ------------------ *)

\* longest tag argument, in symbols
MaxTagLen == 3

\* number of tag arguments
MaxTags == 2

\* number of states
MaxStates == 2

SeqsUpTo(S, n) == UNION { [1..m -> S] : m \in 0..n }

\* the tag arguments: every string over a key symbol, a value symbol and "="
TagArgs == SeqsUpTo({ "k", "v", "=" }, MaxTagLen)
TagArgLists == SeqsUpTo(TagArgs, MaxTags)
StateArgLists == SeqsUpTo({ << "pending" >>, << "running" >> }, MaxStates)

\* the plugin gets the same lists joined with ","
InitFilters ==
    /\ variant \in { "classic", "plugin" }
    /\ \/ /\ variant = "classic"
          /\ args \in [apis : { << "a1" >> }, states : StateArgLists,
                       regions : { << R1 >> }, tags : TagArgLists]
          /\ config = NoConfig
       \/ /\ variant = "plugin"
          /\ args = NoArgs
          /\ config \in [ec2InstanceStates : { Join(l, ",") : l \in StateArgLists },
                         ec2InstanceRegions : { << "r1" >> },
                         ec2InstanceTags : { Join(l, ",") : l \in TagArgLists },
                         ec2Filters : { << >> },
                         sensuNamespace : { "default" },
                         sensuAccessToken : { "tok" }]
    /\ noDns = {}
    /\ awsRegion = << >>
    /\ registry = EmptyRegistry
    /\ regAtStart = registry
    /\ prev = [done |-> FALSE, calls |-> << >>]
    /\ now = 0
    /\ faults = 0
    /\ pass = 1
    /\ calls = << >>
    /\ pc = "start"
    /\ states = << >>
    /\ regions = << >>
    /\ filters = << >>
    /\ ri = 1
    /\ result = << >>
    /\ ii = 1
    /\ exitStatus = 0
    /\ failure = ""
    /\ printed = << >>
    /\ pool = NoPool

NextFilters ==
    \/ mainArgs
    \/ mainRegions
    \/ mainFilters
    \/ validateArgs

SpecFilters == InitFilters /\ [][NextFilters]_vars

\* the criteria the Filter Builder is given, and the filters it has built
CriteriaStates ==
    IF variant = "plugin"
    THEN IF config.ec2InstanceStates = << >> THEN << >>
         ELSE Split(config.ec2InstanceStates, ",")
    ELSE states

CriteriaTags ==
    IF variant = "plugin"
    THEN IF config.ec2InstanceTags = << >> THEN << >>
         ELSE Split(config.ec2InstanceTags, ",")
    ELSE args.tags

BuiltFilters == IF variant = "plugin" THEN config.ec2Filters ELSE filters

FiltersBuilt ==
    \/ variant = "plugin" /\ pc = "discover"
    \/ variant # "plugin" /\ pc = "loop"

\* a tag criterion is well-formed when it is <key>=<value>: one "="
WellFormedTag(t) == Cardinality({ i \in DOMAIN t : t[i] = "=" }) = 1
TagKey(t) == SubSeq(t, 1, IndexOf(t, "=") - 1)
TagValue(t) == SubSeq(t, IndexOf(t, "=") + 1, Len(t))

WellFormedCriteria == \A k \in DOMAIN CriteriaTags : WellFormedTag(CriteriaTags[k])

\* C9: for well-formed criteria the Filter Builder does not fail, and the
\* filters it has built are: first, if and only if states is non-empty, the
\* filter instance-state-name with the states as given; then, for each tag
\* criterion in order, the filter tag:<key> with the one value <value>.  The
\* states are those the builder is handed (the classic main has replaced an
\* empty -state list by "running" before).
C9_FiltersMatchCriteria ==
    WellFormedCriteria
    => /\ failure # "createFilters"
       /\ FiltersBuilt
          => LET n == IF CriteriaStates # << >> THEN 1 ELSE 0
             IN  /\ Len(BuiltFilters) = Len(CriteriaTags) + n
                 /\ n = 1 => BuiltFilters[1] =
                                [Name |-> << "instance-state-name" >>,
                                 Values |-> CriteriaStates]
                 /\ \A k \in DOMAIN CriteriaTags :
                       BuiltFilters[n + k] =
                           [Name |-> << "tag", ":" >> \o TagKey(CriteriaTags[k]),
                            Values |-> << TagValue(CriteriaTags[k]) >>]

C9_Witness ==
    /\ WellFormedCriteria
    /\ FiltersBuilt
    /\ variant = "plugin"
    /\ CriteriaStates = << >>
    /\ Len(CriteriaTags) = 2
    /\ CriteriaTags[1] # CriteriaTags[2]

(* ---------------------------- region enumeration, paging, mapping ------- *)

\* the live region listings of the pass that succeeded with no region
EmptyLiveListings ==
    { k \in DOMAIN calls : /\ calls[k].op = "DescribeRegions"
                           /\ ~calls[k].resp.err
                           /\ calls[k].resp.Regions = << >> }

\* C11: when the live region listing succeeds and returns no region, the
\* enumerator reports an error: the pass does not go on to the filters and
\* the region loop, the process ends with a non-zero status.
C11_EmptyLiveListIsError ==
    EmptyLiveListings # {}
    => /\ pc = "exited"
       /\ exitStatus # 0
       /\ failure = "fetchRegions"

RECURSIVE AllPagesIds(_)
\* the matching instances of a region on all the pages the provider holds
AllPagesIds(pages) ==
    IF pages = << >> THEN {} ELSE IdsOf(Head(pages)) \cup AllPagesIds(Tail(pages))

\* the matching instances of the regions cs holds a successful listing for
MatchingIds(cs) ==
    UNION { AllPagesIds(PagesOf(sessionRegion(c.target, awsRegion))) :
              c \in { x \in SeqToSet(cs) : IsFetch(x) /\ ~x.resp.err } }

\* the number of create requests (classic: lookups) cs holds for a name
UpsertCount(cs, id) ==
    Cardinality({ k \in DOMAIN cs :
                    /\ cs[k].name = id
                    /\ IF variant = "classic" THEN IsLookup(cs[k]) ELSE IsCreate(cs[k]) })

\* C12: when a pass has run to its end without a failure, every matching
\* instance of every page of every region listed, the pages after the first
\* included, has been upserted, and exactly once.
C12_PaginationFollowed ==
    ( /\ pc = "done"
      /\ FailedFetches(calls) = {}
      /\ \A c \in SeqToSet(calls) : ~RegistryFailure(c)
      /\ ApisParse )
    => \A id \in MatchingIds(calls) : UpsertCount(calls, id) = 1

\* C13: the mapper never crashes on an instance that carries an identifier:
\* the process is never ended by a runtime panic in discoverInstance /
\* registerInstance, also for an instance without a public DNS name and for
\* one without tags; whenever the instance loop stands at an instance, the
\* instance has its identifier.
C13_MapperTotal ==
    /\ pc = "instances" => result[ii].InstanceId # ""
    /\ ( pc = "exited" /\ failure = "discoverInstance" ) => exitStatus # 2

(* ---------------------------- endpoint selection ------------------------ *)

\* the hosts of the -api arguments
ConfiguredHosts ==
    { urlParse(args.apis[k]).Host :
        k \in { j \in DOMAIN args.apis : ~urlParse(args.apis[j]).err } }

\* C14: (classic) every request of the pass goes to a host of the -api list;
\* the requests made for one instance, the lookup and the create, all go to
\* one and the same host, there is at most one lookup and one create per
\* instance, so that after a failed request no other endpoint is tried for
\* that instance.
C14_OneEndpointPerUpsert ==
    variant = "classic"
    => \A k \in DOMAIN calls :
          IsUpsert(calls[k])
          => /\ calls[k].target \in ConfiguredHosts
             /\ \A j \in DOMAIN calls :
                   ( j # k /\ IsUpsert(calls[j]) /\ calls[j].name = calls[k].name )
                   => /\ calls[j].target = calls[k].target
                      /\ calls[j].op # calls[k].op
                      /\ ~RegistryFailure(calls[Min2(j, k)])

C14_Witness ==
    /\ variant = "classic"
    /\ pc = "done"
    /\ Cardinality(ConfiguredHosts) = 2
    /\ \E k \in DOMAIN calls :
          /\ RegistryFailure(calls[k])
          /\ \E j \in DOMAIN calls :
                /\ j > k
                /\ IsUpsert(calls[j])
                /\ calls[j].target # calls[k].target
    /\ \E k \in DOMAIN calls :
          IsCreate(calls[k]) /\ calls[k - 1].name = calls[k].name

\* the endpoint manageSensuProxyClient selects for an instance when it reads
\* the clock value t
SelectedHost(t, instance) ==
    manageSensuProxyClient(args.apis, SensuClient(instance), t,
                           Resp(200), Resp(201)).sent[1].target

\* C15: (classic, several endpoints) when two upserts are about to be issued
\* one after the other, every ordered pair of configured endpoints is a
\* possible pair of selections also when both are issued within the same
\* second, i.e. read the same clock value.
C15_IndependentSelection ==
    ( /\ variant = "classic"
      /\ pc = "instances"
      /\ ii < Len(result)
      /\ ~result[ii].PublicDnsName.nil
      /\ ~result[ii + 1].PublicDnsName.nil
      /\ Cardinality(ConfiguredHosts) > 1
      /\ ApisParse )
    => \A h1 \in ConfiguredHosts : \A h2 \in ConfiguredHosts :
          \E t \in now..MaxClock :
             /\ SelectedHost(t, result[ii]) = h1
             /\ SelectedHost(t, result[ii + 1]) = h2

\* what the code does instead: an upsert issued at the clock value of the
\* upsert before it goes to the same endpoint
SameSecondSameEndpoint ==
    [][ ( /\ variant = "classic"
          /\ now' = now
          /\ Len(calls) > 0
          /\ Len(calls') > Len(calls)
          /\ IsUpsert(calls[Len(calls)])
          /\ IsUpsert(calls'[Len(calls')]) )
        => calls'[Len(calls')].target = calls[Len(calls)].target ]_vars

(* ---------------------------- exit status -------------------------------- *)

\* the requests of cs sent to the registry
RegistryCalls(cs) == { c \in SeqToSet(cs) : c.op \in { "GET", "POST" } }

\* the three causes of a non-zero exit status: the configuration does not
\* validate; the registry has rejected the credential; no request of the
\* pass has reached a registry endpoint
ConfigurationFailure == MissingCredential \/ MalformedTag
CredentialFailure == \E c \in RegistryCalls(calls) : c.resp = Resp(401)
RegistryUnreachable ==
    /\ RegistryCalls(calls) # {}
    /\ \A c \in RegistryCalls(calls) : c.resp.err

\* C16: when the process has ended, its exit status is non-zero if and only
\* if the configuration did not validate, the credential was rejected, or no
\* registry endpoint could be reached for any upsert; failed region listings
\* and already-exists or failed upserts alone leave it at zero.
C16_ExitStatus ==
    Ended
    => ( exitStatus # 0
         <=> ( ConfigurationFailure \/ CredentialFailure \/ RegistryUnreachable ) )

(* ---------------------------- calls that get no response ---------------- *)

\* the process stands before a network call: DescribeRegions, the
\* DescribeInstances of a region, or the registry request(s) of an instance
BeforeCall ==
    \/ pc = "regions" /\ Len(regions) = 0
    \/ pc = "loop" /\ ri <= Len(regions)
    \/ /\ pc = "instances"
       /\ variant = "classic" => ( ~result[ii].PublicDnsName.nil /\ ApisParse )

\* a call whose peer never answers.  No client is given a timeout
\* (&http.Client{} in manageSensuProxyClient, &http.Client{Transport: tr} in
\* initHttpClient, the SDK's default client for the provider calls) and no
\* request carries a context with a deadline: the call does not return and
\* the process stays in it.
callWithoutResponse ==
    /\ BeforeCall
    /\ faults < MaxFaults
    /\ faults' = faults + 1
    /\ pc' = "waiting"
    /\ UNCHANGED << env, printed, config, registry, now, pass, regAtStart, prev, calls,
                    states, regions, filters, ri, result, ii, exitStatus, failure >>

NextTimeouts == Next \/ callWithoutResponse

\* the process runs as long as it has a step to take
SpecTimeouts == Init /\ [][NextTimeouts]_vars /\ WF_vars(NextTimeouts)

\* C17: every pass that starts comes to its end, also when a provider or
\* registry call never gets a response.
C17_PassTerminates == (pc = "start") ~> Ended

(* ---------------------------- upserts in any order ---------------------- *)

\* number of workers of the pool
PoolSize == 2

\* the instances a pass discovers: the listings of r1, r2 and r3, region by
\* region, reservation by reservation
Discovered ==
    instancesOf(DescribeInstancesOutput(R1).Reservations, {})
    \o instancesOf(DescribeInstancesOutput(R2).Reservations, {})
    \o instancesOf(DescribeInstancesOutput(R3).Reservations, {})

Idle == [step |-> "idle", i |-> 0, seed |-> 0]

\* the registry fails the create request for the names of failing with 500,
\* whenever and from whichever worker the request comes
CreateAnswer(name, honest, failing) == IF name \in failing THEN Resp(500) ELSE honest

FailingSets ==
    { F \in SUBSET { Discovered[k].InstanceId : k \in DOMAIN Discovered } :
        Cardinality(F) <= MaxFaults }

InitWorkers ==
    /\ variant \in { "classic", "plugin" }
    /\ \/ /\ variant = "classic"
          /\ args = [apis |-> << "a1", "a2" >>, states |-> << >>,
                     regions |-> << R1, R2, R3 >>, tags |-> << >>]
          /\ config = NoConfig
       \/ /\ variant = "plugin"
          /\ args = NoArgs
          /\ config \in { [NoConfig EXCEPT !.ec2InstanceRegions = << "r1", ",", "r2", ",", "r3" >>,
                                           !.sensuAccessToken = "tok",
                                           !.sensuNamespace = n] : n \in Namespaces }
    /\ noDns = {}
    /\ awsRegion = << >>
    /\ registry \in InitialRegistries(variant)
    /\ regAtStart = registry
    /\ prev = [done |-> FALSE, calls |-> << >>]
    /\ now = 0
    /\ faults = 0
    /\ pass = 1
    /\ calls = << >>
    /\ pc = "pool"
    /\ states = << >>
    /\ regions = << R1, R2, R3 >>
    /\ filters = << >>
    /\ ri = 1
    /\ result = Discovered
    /\ ii = 1
    /\ exitStatus = 0
    /\ failure = ""
    /\ printed = << >>
    /\ pool \in { [pending |-> DOMAIN Discovered, failing |-> F,
                   at |-> [w \in 1..PoolSize |-> Idle]] : F \in FailingSets }

\* an idle worker takes any instance not yet taken
poolTake ==
    /\ pc = "pool"
    /\ \E w \in DOMAIN pool.at : \E i \in pool.pending :
         /\ pool.at[w] = Idle
         /\ pool' = [pool EXCEPT
                       !.pending = @ \ { i },
                       !.at[w] = [step |-> IF variant = "classic" THEN "lookup" ELSE "create",
                                  i |-> i, seed |-> 0]]
    /\ UNCHANGED << printed, variant, args, noDns, awsRegion, config, registry, now, faults,
                    pass, regAtStart, prev, calls, pc, states, regions, filters,
                    ri, result, ii, exitStatus, failure >>

\* a worker runs manageSensuProxyClient up to the answer to its lookup
poolLookup ==
    /\ pc = "pool"
    /\ \E w \in DOMAIN pool.at : \E t \in now..MaxClock :
         /\ pool.at[w].step = "lookup"
         /\ LET client == SensuClient(result[pool.at[w].i])
                g == GetClient(registry, client.Name)
                r == manageSensuProxyClient(args.apis, client, t, g, Resp(201))
            IN  /\ calls' = Append(calls, r.sent[1])
                /\ now' = t
                /\ pool' = [pool EXCEPT
                              !.at[w] = IF Len(r.sent) = 2
                                        THEN [step |-> "create", i |-> pool.at[w].i,
                                              seed |-> t]
                                        ELSE Idle]
    /\ UNCHANGED << printed, variant, args, noDns, awsRegion, config, registry, faults,
                    pass, regAtStart, prev, pc, states, regions, filters, ri,
                    result, ii, exitStatus, failure >>

\* a worker sends its create request: the rest of manageSensuProxyClient, or
\* registerInstance, whose log.Fatalf ends the process with all its workers
poolCreate ==
    /\ pc = "pool"
    /\ \E w \in DOMAIN pool.at :
         /\ pool.at[w].step = "create"
         /\ IF variant = "classic"
            THEN LET client == SensuClient(result[pool.at[w].i])
                     postOK == PostClient(registry, client)
                     p == CreateAnswer(client.Name, postOK.resp, pool.failing)
                     r == manageSensuProxyClient(args.apis, client, pool.at[w].seed,
                                                 Resp(404), p)
                 IN  /\ calls' = Append(calls, r.sent[2])
                     /\ registry' = IF p = postOK.resp THEN postOK.reg ELSE registry
                     /\ pool' = [pool EXCEPT !.at[w] = Idle]
                     /\ UNCHANGED << pc, exitStatus, failure >>
            ELSE LET entity == Entity(result[pool.at[w].i], config.sensuNamespace)
                     postOK == PostEntity(registry, entity)
                     p == CreateAnswer(entity.Name, postOK.resp, pool.failing)
                 IN  /\ calls' = Append(calls, Call("POST", "entities", entity.Name,
                                                    config.sensuAccessToken, entity, p))
                     /\ registry' = IF p = postOK.resp THEN postOK.reg ELSE registry
                     /\ IF registerOutcome(p) = "fatal"
                        THEN /\ Exit(1, "registerInstance")
                             /\ UNCHANGED pool
                        ELSE /\ pool' = [pool EXCEPT !.at[w] = Idle]
                             /\ UNCHANGED << pc, exitStatus, failure >>
    /\ UNCHANGED << printed, variant, args, noDns, awsRegion, config, now, faults, pass,
                    regAtStart, prev, states, regions, filters, ri, result, ii >>

\* every instance is taken and every worker is idle: the pass returns
poolReturn ==
    /\ pc = "pool"
    /\ pool.pending = {}
    /\ \A w \in DOMAIN pool.at : pool.at[w] = Idle
    /\ pc' = "done"
    /\ exitStatus' = 0
    /\ UNCHANGED << env, printed, config, registry, now, faults, pass, regAtStart, prev,
                    calls, states, regions, filters, ri, result, ii, failure >>

NextWorkers == poolTake \/ poolLookup \/ poolCreate \/ poolReturn

SpecWorkers == InitWorkers /\ [][NextWorkers]_vars

RECURSIVE SequentialRegistry(_, _, _)
\* the registry content the sequential loops of main / discoverInstances
\* leave: discoverInstance or registerInstance for each instance in turn,
\* against the same registry answers
SequentialRegistry(instances, reg, failing) ==
    IF instances = << >> THEN reg
    ELSE IF variant = "classic"
    THEN LET client == SensuClient(Head(instances))
             postOK == PostClient(reg, client)
             p == CreateAnswer(client.Name, postOK.resp, failing)
             r == manageSensuProxyClient(args.apis, client, 0,
                                         GetClient(reg, client.Name), p)
         IN  SequentialRegistry(Tail(instances),
                                IF Len(r.sent) = 2 /\ p = postOK.resp
                                THEN postOK.reg ELSE reg,
                                failing)
    ELSE LET entity == Entity(Head(instances), config.sensuNamespace)
             postOK == PostEntity(reg, entity)
             p == CreateAnswer(entity.Name, postOK.resp, failing)
             after == IF p = postOK.resp THEN postOK.reg ELSE reg
         IN  IF registerOutcome(p) = "fatal"
             THEN after
             ELSE SequentialRegistry(Tail(instances), after, failing)

\* C18: whatever the order in which the workers take the instances and
\* however their request steps interleave, the registry content when the
\* pass has ended is the content the sequential execution leaves for the
\* same instances, the same initial registry and the same registry answers.
C18_OrderIndependent ==
    ( pool # NoPool /\ Ended )
    => registry = SequentialRegistry(result, regAtStart, pool.failing)

(* ---------------------------- records already in the registry ----------- *)

\* C19: every record the registry held when the pass started is still there,
\* unchanged, at every point of the pass (labels, class and namespace, or the
\* classic client's fields), also when the tags of the instance differ from
\* the stored ones and when the instance is not discovered in this pass; the
\* pass only adds records, and only for instances it has sent a request for.
C19_ExistingRecordsKept ==
    /\ \A n \in DOMAIN regAtStart :
          n \in DOMAIN registry /\ registry[n] = regAtStart[n]
    /\ \A n \in (DOMAIN registry) \ (DOMAIN regAtStart) : n \in UpsertedIds(calls)

\* the stored record of i1 differs from what the mapper builds for i1, i1 has
\* been upserted, and the pass has added records
C19_Witness ==
    /\ pc = "done"
    /\ "i1" \in DOMAIN regAtStart
    /\ "i1" \in UpsertedIds(calls)
    /\ regAtStart["i1"] = StaleRecord(variant)
    /\ regAtStart["i1"] # ( IF variant = "classic"
                            THEN SensuClient(Instance("i1", noDns))
                            ELSE Entity(Instance("i1", noDns), "default") )
    /\ (DOMAIN registry) \ (DOMAIN regAtStart) # {}

\* the same when i1 is not discovered in the pass
C19_WitnessNotDiscovered ==
    /\ pc = "done"
    /\ "i1" \in DOMAIN regAtStart
    /\ "i1" \notin UpsertedIds(calls)
    /\ (DOMAIN registry) \ (DOMAIN regAtStart) # {}

(* ---------------------------- lookup, then create ----------------------- *)

\* the create requests of the pass for a name
CreatesFor(n) == { j \in DOMAIN calls : IsCreate(calls[j]) /\ calls[j].name = n }

\* manageSensuProxyClient has returned an error for the name: main has
\* printed it
Reported(n) == \E k \in DOMAIN printed : printed[k] = ErrorLine("instance", n)

ErrorStatus(resp) == ~resp.err /\ resp.StatusCode >= 300

\* C20: (classic) for every lookup of the pass: the create request for the
\* name has been sent if and only if the lookup was answered 404; when no
\* error was returned, the lookup was answered 200 or the create request was
\* accepted; and an error status of the lookup other than 404, or an error
\* status of the create, was returned as an error.
C20_LookupThenCreate ==
    variant = "classic"
    => \A k \in DOMAIN calls :
          IsLookup(calls[k])
          => LET n == calls[k].name
                 g == calls[k].resp
             IN  /\ CreatesFor(n) # {} <=> g = Resp(404)
                 /\ ~Reported(n)
                    => \/ g = Resp(200)
                       \/ \E j \in CreatesFor(n) : calls[j].resp = Resp(201)
                 /\ ( ErrorStatus(g) /\ g # Resp(404) ) => Reported(n)
                 /\ \A j \in CreatesFor(n) : ErrorStatus(calls[j].resp) => Reported(n)

====
